---- MODULE Spec2Model ----
(***************************************************************************)
(* Model of the conflation engine of tum_lanelet2_osm_fusion               *)
(* (src/src/conflation/conflation.cpp).                                    *)
(*                                                                         *)
(* Geometry is one-dimensional: every point has an integer coordinate x    *)
(* along the road axis, distances are absolute differences, and the        *)
(* snapping tolerance 1e-3 is "same coordinate".  Identities (lanelet::Id) *)
(* are naturals; points, linestrings and lanelets draw fresh identities    *)
(* from one counter, as lanelet::utils::getId() does.                      *)
(***************************************************************************)
EXTENDS Integers, Sequences, FiniteSets, TLC

VARIABLES
  pc,           \* position of the driver: which call comes next
  matches,      \* std::vector<s_match>: [ref |-> route, target |-> route]
  lanelets,     \* map_ptr->laneletLayer: id -> [left, right, attr]
  linestrings,  \* shared linestring data: id -> sequence of point ids
  ptX,          \* coordinate of every point id
  nextId,       \* next value of lanelet::utils::getId()
  cols,         \* std::vector<std::pair<Id, std::string>>
  deleted,      \* lanelet::ConstLanelets deleted (sequence of lanelet ids)
  new_map,      \* the map filled by create_updated_map
  mi,           \* index of the match being processed (1-based)
  pts_change,   \* per key: change points found on the target route
  values,       \* per key: value sequence found on the target route
  loc,          \* locals of the call in progress
  log           \* observations of the calls made so far

vars == <<pc, matches, lanelets, linestrings, ptX, nextId, cols, deleted,
          new_map, mi, pts_change, values, loc, log>>

----------------------------------------------------------------------------
(* Bounds of the model *)

MaxTarget == 3

\* the longest chain of one direction on a reference segment (check_lanes alone)
MaxChain == 2

----------------------------------------------------------------------------
(* Generic helpers *)

Range(s) == {s[i] : i \in 1..Len(s)}

Reverse(s) == [i \in 1..Len(s) |-> s[Len(s) + 1 - i]]

Abs(a) == IF a < 0 THEN -a ELSE a

Max(a, b) == IF a < b THEN b ELSE a

\* position of the first occurrence of e in s, Len(s)+1 when absent (std::find)
Find(s, e) ==
  IF \E i \in 1..Len(s) : s[i] = e
  THEN CHOOSE i \in 1..Len(s) : s[i] = e /\ \A j \in 1..(i - 1) : s[j] # e
  ELSE Len(s) + 1

SeqsUpTo(S, n) == UNION {[1..k -> S] : k \in 0..n}

----------------------------------------------------------------------------
(* conflate_lanelet_OSM: the keys looked for on the target route *)

target_keys == <<"highway", "maxspeed", "name", "oneway",
                 "surface", "lane_markings", "lanes", "shoulder">>

----------------------------------------------------------------------------
(* check_tag_change *)

\* hasAttribute(key) / attribute(key).value() of a route segment
HasTag(seg, key) == key \in DOMAIN seg.tags

RECURSIVE ScanTagDropsAbsent(_, _, _, _, _, _)
ScanTagDropsAbsent(pline, key, i, val, pts_, values_) ==
  IF i > Len(pline) THEN [pts |-> pts_, values |-> values_]
  ELSE IF HasTag(pline[i], key) /\ pline[i].tags[key] # val
       THEN ScanTagDropsAbsent(pline, key, i + 1, pline[i].tags[key],
                    Append(pts_, pline[i].front), Append(values_, pline[i].tags[key]))
       ELSE ScanTagDropsAbsent(pline, key, i + 1, val, pts_, values_)

\* the loop over the remaining segments, from segment i on
RECURSIVE ScanTag(_, _, _, _, _, _)
ScanTag(pline, key, i, val, pts_, values_) ==
  IF i > Len(pline) THEN [pts |-> pts_, values |-> values_]
  ELSE IF HasTag(pline[i], key)
       THEN IF pline[i].tags[key] # val
            THEN ScanTag(pline, key, i + 1, pline[i].tags[key],
                         Append(pts_, pline[i].front), Append(values_, pline[i].tags[key]))
            ELSE ScanTag(pline, key, i + 1, val, pts_, values_)
       ELSE IF val # ""
            THEN ScanTag(pline, key, i + 1, "",
                         Append(pts_, pline[i].front), Append(values_, ""))
            ELSE ScanTag(pline, key, i + 1, val, pts_, values_)

\* one iteration of the loop over the keys
CheckTagChangeKey(pline, key) ==
  LET val == IF pline # <<>> /\ HasTag(pline[1], key) THEN pline[1].tags[key] ELSE ""
  IN  ScanTag(pline, key, 2, val, <<>>, <<val>>)

CheckTagChange(pline, keys) ==
  [pts    |-> [k \in 1..Len(keys) |-> CheckTagChangeKey(pline, keys[k]).pts],
   values |-> [k \in 1..Len(keys) |-> CheckTagChangeKey(pline, keys[k]).values]]

----------------------------------------------------------------------------
(* Linestrings.  A LineString3d handle is [id, inv]: shared data plus the   *)
(* inverted flag of the handle; linestrings[id] = [pts, straight, attr].    *)

Invert(h) == [id |-> h.id, inv |-> ~h.inv]

\* the points of a linestring as the handle h sees them
LsPoints(lss, h) == IF h.inv THEN Reverse(lss[h.id].pts) ELSE lss[h.id].pts

\* the data of a linestring whose handle h is to show the points s
LsData(h, s) == IF h.inv THEN Reverse(s) ELSE s

\* lanelet::geometry::project on the road axis: the closest point of the polyline
Project(xs, p) ==
  LET lo == CHOOSE a \in Range(xs) : \A b \in Range(xs) : a <= b
      hi == CHOOSE a \in Range(xs) : \A b \in Range(xs) : b <= a
  IN  IF p < lo THEN lo ELSE IF p > hi THEN hi ELSE p

\* std::distance(begin, std::min_element(...)): 0-based index of the first minimum;
\* 0 for an empty vector (min_element returns end() = begin())
MinElement(d) ==
  IF d = <<>> THEN 0
  ELSE (CHOOSE i \in 1..Len(d) : /\ \A j \in 1..Len(d) : d[i] <= d[j]
                                 /\ \A j \in 1..(i - 1) : d[j] > d[i]) - 1

\* 1e-3, in units of the integer coordinates
Tolerance == 1

\* find_segment_2D: index of the segment whose line y = m*x + t is nearest to pt.
\* On a straight linestring every segment lies on one line, all residuals are equal
\* and the first index wins; otherwise the first segment that holds pt wins.
FindSegment2D(px, xs, straight) ==
  IF straight THEN 0
  ELSE MinElement([i \in 1..(Len(xs) - 1) |->
         IF (xs[i] <= px /\ px <= xs[i + 1]) \/ (xs[i + 1] <= px /\ px <= xs[i])
         THEN 0 ELSE 1])

\* used_Id(ids, ls)
NeverUsed(ids, id) == FALSE

UsedId(ids, id) == id \in Range(ids)

\* new_ls_ = {new_pt} followed by orig_ls[ind + 1 ..]
SplitSuffix(ps, ind, new_pt) == <<new_pt>> \o SubSeq(ps, ind + 2, Len(ps))

\* orig_ls popped back to its first ind + 1 points, then push_back(new_pt)
SplitPrefix(ps, ind, new_pt) == Append(SubSeq(ps, 1, ind + 1), new_pt)

\* the else branch: the linestring stored for an id that was split before
MemoLast(splitted, new_lss, id) == new_lss[Len(new_lss)]

SplitMemo(splitted, new_lss, id) == new_lss[Find(splitted, id)]

\* where the split point falls on the points with coordinates xs, imin being the
\* index of the point nearest to the projection pt_proj: kind, the coordinate x of
\* new_pt, whether new_pt is the existing point at imin (snap), and the index ind
\* after which the linestring is cut
SplitPlaceAt(xs, pt_proj, straight, imin) ==
  IF Abs(pt_proj - xs[imin + 1]) < Tolerance
  THEN IF imin = 0
       THEN \* the first point: interpolate between the first two points
            [kind |-> "first", snap |-> FALSE, x |-> (xs[1] + xs[2]) \div 2,
             ind |-> FindSegment2D((xs[1] + xs[2]) \div 2, xs, straight)]
       ELSE IF Len(xs) - imin = 0
       THEN \* std::distance(min_element, end) == 0: reads orig_ls[sz]
            [kind |-> "past_end", snap |-> FALSE, x |-> xs[Len(xs)],
             ind |-> FindSegment2D(xs[Len(xs)], xs, straight)]
       ELSE [kind |-> IF imin = Len(xs) - 1 THEN "last" ELSE "vertex", snap |-> TRUE,
             x |-> xs[imin + 1], ind |-> imin]
  ELSE [kind |-> "inside", snap |-> FALSE, x |-> pt_proj,
        ind |-> FindSegment2D(pt_proj, xs, straight)]

\* the vector d of the distances of the points to the projection, and its minimum
SplitPlace(xs, pt_proj, straight) ==
  SplitPlaceAt(xs, pt_proj, straight,
               MinElement([i \in 1..Len(xs) |-> Abs(pt_proj - xs[i])]))

\* the linestring orig_ls with the points ps is cut at the place pl: the new
\* linestring takes the id nextId + 1 (nextId went to the point made at the start)
SplitCut(st, orig_ls, ps, invert, pl, new_pt) ==
  [st |-> [st EXCEPT
             !.lss = ((st.nextId + 1) :>
                        [pts |-> SplitSuffix(ps, pl.ind, new_pt),
                         straight |-> st.lss[orig_ls.id].straight,
                         attr |-> st.lss[orig_ls.id].attr])
                     @@ [st.lss EXCEPT ![orig_ls.id].pts =
                           LsData(orig_ls, SplitPrefix(ps, pl.ind, new_pt))],
             !.ptX = IF pl.snap THEN @ ELSE (new_pt :> pl.x) @@ @,
             !.nextId = @ + 2,
             !.splitted = Append(@, orig_ls.id),
             !.new_lss = Append(@, [id |-> st.nextId + 1, inv |-> FALSE])],
   new_ls |-> [id |-> st.nextId + 1, inv |-> invert],
   fresh |-> TRUE, kind |-> pl.kind, new_pt |-> new_pt]

\* the linestring has not been split so far: new_pt is the existing point when the
\* place snaps to one, the point made with the id nextId otherwise
SplitFresh(st, orig_ls, ps, invert, pl) ==
  SplitCut(st, orig_ls, ps, invert, pl, IF pl.snap THEN ps[pl.ind + 1] ELSE st.nextId)

\* the linestring was split before: the stored linestring m is handed out
SplitAgain(st, invert, m) ==
  [st |-> st, new_ls |-> IF invert THEN Invert(m) ELSE m,
   fresh |-> FALSE, kind |-> "memo", new_pt |-> 0]

SplitView(st, orig_ls, ps, px, invert) ==
  IF ~UsedId(st.splitted, orig_ls.id)
  THEN SplitFresh(st, orig_ls, ps, invert,
                  SplitPlace([i \in 1..Len(ps) |-> st.ptX[ps[i]]],
                             Project([i \in 1..Len(ps) |-> st.ptX[ps[i]]], px),
                             st.lss[orig_ls.id].straight))
  ELSE SplitAgain(st, invert, SplitMemo(st.splitted, st.new_lss, orig_ls.id))

\* split_linestring.  st holds lss, ptX, nextId, splitted, new_lss; h is the handle
\* of the bound, px the coordinate of the split point.  The result holds the new
\* state st, the handle new_ls, and fresh (the linestring was split by this call),
\* kind (where the projected point fell) and new_pt.
SplitLinestring(st, h, px, invert) ==
  SplitView(st, IF invert THEN Invert(h) ELSE h,
            LsPoints(st.lss, IF invert THEN Invert(h) ELSE h), px, invert)

\* what a call of split_linestring on the handle h did: the linestring id, its points
\* before and after the call (in the direction of the split), the linestring handed
\* out as new_ls and its points before (if it existed) and after the call
Observe(st, h, invert, r) ==
  [id |-> h.id, fresh |-> r.fresh, kind |-> r.kind, new_pt |-> r.new_pt,
   before |-> LsPoints(st.lss, IF invert THEN Invert(h) ELSE h),
   after |-> LsPoints(r.st.lss, IF invert THEN Invert(h) ELSE h),
   new_id |-> r.new_ls.id,
   suffix_before |-> IF r.new_ls.id \in DOMAIN st.lss THEN st.lss[r.new_ls.id].pts ELSE <<>>,
   suffix |-> r.st.lss[r.new_ls.id].pts]

----------------------------------------------------------------------------
(* Lanelets and the reference route.  A reference segment is                *)
(* [front, back, forward, backward]: forward and backward are the chains,   *)
(* the attributes ll_id_forward_<i> and ll_id_backward_<i> as functions     *)
(* from the indices present to lanelet ids.                                 *)

\* lanelet::Lanelet empty: no id, bounds without points
EmptyLl == [id |-> 0, left |-> [id |-> 0, inv |-> FALSE],
            right |-> [id |-> 0, inv |-> FALSE], attr |-> <<>>]

\* find_ll: the lanelet of the layer with this id, or the empty lanelet
FindLl(lls, id) ==
  IF id \in DOMAIN lls
  THEN [id |-> id, left |-> lls[id].left, right |-> lls[id].right, attr |-> lls[id].attr]
  ELSE EmptyLl

\* get_index: the reference segment nearest to the point at px (0-based)
GetIndex(ref, ptx, px) ==
  MinElement([i \in 1..Len(ref) |->
                Abs(ptx[ref[i].front] - px) + Abs(ptx[ref[i].back] - px)])

\* number of chain entries reached by counting the keys <key>1, <key>2, ... up
ChainLen(chain) ==
  CHOOSE n \in 0..Cardinality(DOMAIN chain) :
    /\ \A i \in 1..n : i \in DOMAIN chain
    /\ (n + 1) \notin DOMAIN chain

\* s_match::update_ref_tags(key_ind, orig_id, new_id, ind): the entry of segment
\* ind under key_ind that names orig_id names new_id afterwards
UpdateRefTags(ref, dir, i, orig_id, new_id, ind) ==
  IF i \in DOMAIN ref[ind + 1][dir] /\ ref[ind + 1][dir][i] = orig_id
  THEN [ref EXCEPT ![ind + 1][dir][i] = new_id]
  ELSE ref

\* a chain without the entries that name id, numbered 1..n again
StripOnly(chain, id) == [i \in {k \in DOMAIN chain : chain[k] # id} |-> chain[i]]

Reindexed(chain, id) ==
  LET keep == {i \in DOMAIN chain : chain[i] # id}
      rank(i) == Cardinality({j \in keep : j <= i})
  IN  [n \in 1..Cardinality(keep) |-> chain[CHOOSE i \in keep : rank(i) = n]]

\* s_match::remove_tag_ref_pline(id): the chain entries naming id are stripped from
\* the segments of the reference route and the chains are re-indexed
RemoveTagRefPline(ref, id) ==
  [s \in 1..Len(ref) |->
     [ref[s] EXCEPT !.forward = Reindexed(@, id), !.backward = Reindexed(@, id)]]

\* bool invert = key.find("backward") != npos
InvertFor(dir) == dir = "backward"

SplitAddBare(w, ind, dir, i, orig, l, r) ==
  [r.st EXCEPT !.nextId = @ + 1,
               !.lls = (r.st.nextId :>
                          [left |-> l.new_ls, right |-> r.new_ls, attr |-> <<>>]) @@ @,
               !.ref = UpdateRefTags(@, dir, i, orig.id, r.st.nextId, ind),
               !.obs = @ \o <<Observe(w, orig.left, InvertFor(dir), l),
                                Observe(l.st, orig.right, InvertFor(dir), r)>>,
               !.made = Append(@, [orig |-> orig.id, new |-> r.st.nextId,
                                   seg |-> ind, dir |-> dir, i |-> i]),
               !.splits = @ \o (IF l.fresh THEN <<orig.left.id>> ELSE <<>>)
                            \o (IF r.fresh THEN <<orig.right.id>> ELSE <<>>)]

\* the new lanelet of split_ll_dir is added and the chain entry updated; l and r
\* are the results of splitting the left and the right bound of orig
SplitAdd(w, ind, dir, i, orig, l, r) ==
  [r.st EXCEPT !.nextId = @ + 1,
               !.lls = (r.st.nextId :>
                          [left |-> l.new_ls, right |-> r.new_ls, attr |-> orig.attr]) @@ @,
               !.ref = UpdateRefTags(@, dir, i, orig.id, r.st.nextId, ind),
               !.obs = @ \o <<Observe(w, orig.left, InvertFor(dir), l),
                                Observe(l.st, orig.right, InvertFor(dir), r)>>,
               !.made = Append(@, [orig |-> orig.id, new |-> r.st.nextId,
                                   seg |-> ind, dir |-> dir, i |-> i]),
               !.splits = @ \o (IF l.fresh THEN <<orig.left.id>> ELSE <<>>)
                            \o (IF r.fresh THEN <<orig.right.id>> ELSE <<>>)]

SplitRight(w, ind, dir, px, i, orig, l) ==
  SplitAdd(w, ind, dir, i, orig, l, SplitLinestring(l.st, orig.right, px, InvertFor(dir)))

SplitLeft(w, ind, dir, px, i, orig) ==
  SplitRight(w, ind, dir, px, i, orig, SplitLinestring(w, orig.left, px, InvertFor(dir)))

\* the while loop of split_ll_dir from the chain entry i on
RECURSIVE SplitLlDirFrom(_, _, _, _, _)
SplitLlDirFrom(w, ind, dir, px, i) ==
  IF i \notin DOMAIN w.ref[ind + 1][dir] THEN w
  ELSE SplitLlDirFrom(SplitLeft(w, ind, dir, px, i, FindLl(w.lls, w.ref[ind + 1][dir][i])),
                      ind, dir, px, i + 1)

\* split_ll_dir
SplitLlDir(w, ind, dir, px) == SplitLlDirFrom(w, ind, dir, px, 1)

\* merge_point_vec: the points of all vectors, each once, in order of appearance
RECURSIVE MergeInto(_, _)
MergeInto(merged, pts) ==
  IF pts = <<>> THEN merged
  ELSE MergeInto(IF Head(pts) \in Range(merged) THEN merged
                 ELSE Append(merged, Head(pts)), Tail(pts))

RECURSIVE MergePointVec(_)
MergePointVec(vecs) ==
  IF vecs = <<>> THEN <<>>
  ELSE MergeInto(MergePointVec(SubSeq(vecs, 1, Len(vecs) - 1)), vecs[Len(vecs)])

----------------------------------------------------------------------------
(* Propagation of values onto the lanelets of the reference segments *)

\* same_direction: the angle between the start-to-end vectors of the two routes is
\* below 90 degrees; on the road axis the angle is 0 (product >= 0) or 180 degrees
SameDirection(match, ptx) ==
  IF match.ref # <<>> /\ match.target # <<>>
  THEN LET v1 == ptx[match.ref[Len(match.ref)].back] - ptx[match.ref[1].front]
           v2 == ptx[match.target[Len(match.target)].back] - ptx[match.target[1].front]
       IN  v1 * v2 >= 0
  ELSE FALSE

\* the value for segment ind (0-based): values.front(), overwritten by values[j + 1]
\* for every j with ind >= ind_change[j]
ActiveValue(vals, ind_change, ind) ==
  LET hits == {j \in 1..Len(ind_change) : ind >= ind_change[j]}
  IN  IF hits = {} THEN vals[1]
      ELSE vals[(CHOOSE j \in hits : \A k \in hits : k <= j) + 1]

\* highway2subtype_location
Highway2SubtypeLocation(val_osm) ==
  IF val_osm \in {"motorway", "trunk", "motorway_link", "trunk_link"}
  THEN [subtype |-> "highway", location |-> "nonurban"]
  ELSE IF val_osm \in {"primary", "secondary", "tertiary", "unclassified", "residential",
                       "primary_link", "secondary_link", "tertiary_link", "service"}
  THEN [subtype |-> "road", location |-> "urban"]
  ELSE IF val_osm = "living_street" THEN [subtype |-> "play_street", location |-> ""]
  ELSE IF val_osm = "busway" THEN [subtype |-> "bus_lane", location |-> "urban"]
  ELSE IF val_osm = "cycleway" THEN [subtype |-> "bicycle_lane", location |-> ""]
  ELSE [subtype |-> "", location |-> ""]

\* set_value_dir from chain entry i on.  a = [lls, setll, writes, seg]: the lanelets,
\* the ids written so far in this call, the writes made (observed) and the
\* reference segment (1-based) the call is made for
RECURSIVE SetValueDirAlways(_, _, _, _, _)
SetValueDirAlways(a, chain, key_ref, val, i) ==
  IF i \in DOMAIN chain /\ chain[i] \in DOMAIN a.lls
  THEN SetValueDirAlways(
         [lls |-> [a.lls EXCEPT ![chain[i]].attr = (key_ref :> val) @@ @],
          setll |-> Append(a.setll, chain[i]),
          writes |-> Append(a.writes, [id |-> chain[i], key |-> key_ref, val |-> val,
                                       seg |-> a.seg]),
          seg |-> a.seg],
         chain, key_ref, val, i + 1)
  ELSE a

RECURSIVE SetValueDirSkipsEmpty(_, _, _, _, _)
SetValueDirSkipsEmpty(a, chain, key_ref, val, i) ==
  IF i \notin DOMAIN chain THEN a
  ELSE LET ll == FindLl(a.lls, chain[i])
       IN  SetValueDirSkipsEmpty(
             IF ~UsedId(a.setll, ll.id) /\ val # ""
             THEN [lls |-> IF ll.id \in DOMAIN a.lls
                           THEN [a.lls EXCEPT ![ll.id].attr = (key_ref :> val) @@ @]
                           ELSE a.lls,
                   setll |-> Append(a.setll, ll.id),
                   writes |-> Append(a.writes, [id |-> ll.id, key |-> key_ref, val |-> val,
                                                seg |-> a.seg]),
                   seg |-> a.seg]
             ELSE a,
             chain, key_ref, val, i + 1)

RECURSIVE SetValueDirFrom(_, _, _, _, _)
SetValueDirFrom(a, chain, key_ref, val, i) ==
  IF i \notin DOMAIN chain THEN a
  ELSE LET ll == FindLl(a.lls, chain[i])
       IN  SetValueDirFrom(
             IF ~UsedId(a.setll, ll.id)
             THEN [lls |-> IF ll.id \in DOMAIN a.lls
                           THEN [a.lls EXCEPT ![ll.id].attr = (key_ref :> val) @@ @]
                           ELSE a.lls,
                   setll |-> Append(a.setll, ll.id),
                   writes |-> Append(a.writes, [id |-> ll.id, key |-> key_ref, val |-> val,
                                                seg |-> a.seg]),
                   seg |-> a.seg]
             ELSE a,
             chain, key_ref, val, i + 1)

SetValueDir(a, chain, key_ref, val) == SetValueDirFrom(a, chain, key_ref, val, 1)

\* the loop of transfer_tag over the reference segments, from segment s (1-based) on
RECURSIVE TransferTagFrom(_, _, _, _, _, _)
TransferTagFrom(a, ref, key_ref, ind_change, vals, s) ==
  IF s > Len(ref) THEN a
  ELSE LET val == ActiveValue(vals, ind_change, s - 1)
           f   == SetValueDir([a EXCEPT !.seg = s], ref[s].forward, key_ref, val)
           b   == SetValueDir(f, ref[s].backward, key_ref, val)
       IN  TransferTagFrom(b, ref, key_ref, ind_change, vals, s + 1)

\* the values as transfer_tag, set_type_location and check_lanes use them
Flipped(vals, match, ptx) == IF ~SameDirection(match, ptx) THEN Reverse(vals) ELSE vals

\* the indices of the reference segments nearest to the change points
IndChange(match, ptx, pts) == [j \in 1..Len(pts) |-> GetIndex(match.ref, ptx, ptx[pts[j]])]

\* transfer_att (with transfer_tag): the lanelets after the call
TransferAtt(lls, match, ptx, key_ref, pts, vals) ==
  IF vals # <<>>
  THEN TransferTagFrom([lls |-> lls, setll |-> <<>>, writes |-> <<>>, seg |-> 0],
                       match.ref, key_ref,
                       IndChange(match, ptx, pts), Flipped(vals, match, ptx), 1)
  ELSE [lls |-> lls, setll |-> <<>>, writes |-> <<>>, seg |-> 0]

\* the loop of set_type_location over the reference segments; a = [sub, loc], the
\* state of the subtype writes and of the location writes
RECURSIVE SetTypeLocationFrom(_, _, _, _, _)
SetTypeLocationFrom(a, ref, ind_change, vals, s) ==
  IF s > Len(ref) THEN a
  ELSE LET sl == Highway2SubtypeLocation(ActiveValue(vals, ind_change, s - 1))
           s1 == SetValueDir([a.sub EXCEPT !.seg = s], ref[s].forward, "subtype", sl.subtype)
           s2 == SetValueDir(s1, ref[s].backward, "subtype", sl.subtype)
           l0 == [a.loc EXCEPT !.lls = s2.lls, !.seg = s]
           l1 == SetValueDir(l0, ref[s].forward, "location", sl.location)
           l2 == SetValueDir(l1, ref[s].backward, "location", sl.location)
       IN  SetTypeLocationFrom([sub |-> [s2 EXCEPT !.lls = l2.lls], loc |-> l2],
                               ref, ind_change, vals, s + 1)

\* set_type_location: the lanelets after the call (in .loc.lls)
SetTypeLocation(lls, match, ptx, pts, vals) ==
  LET a0 == [lls |-> lls, setll |-> <<>>, writes |-> <<>>, seg |-> 0]
  IN  IF vals # <<>>
      THEN SetTypeLocationFrom([sub |-> a0, loc |-> a0], match.ref,
                               IndChange(match, ptx, pts), Flipped(vals, match, ptx), 1)
      ELSE [sub |-> a0, loc |-> a0]

----------------------------------------------------------------------------
(* Lane-count reconciliation *)

\* the integers std::stoi reads from the values of the lanes tag
Digits == <<"0", "1", "2", "3", "4", "5", "6", "7", "8", "9">>

IsInt(str) == str \in Range(Digits)

Stoi(str) == Find(Digits, str) - 1

LanesOsmBothAsOne(val_lane, val_sh) ==
  Stoi(val_lane) + (IF val_sh \in {"yes", "left", "right", "both"} THEN 1 ELSE 0)

\* lanes_osm of check_lanes, for a non-empty lanes value
LanesOsm(val_lane, val_sh) ==
  Stoi(val_lane) + (IF val_sh \in {"yes", "left", "right"} THEN 1
                    ELSE IF val_sh = "both" THEN 2 ELSE 0)

\* col_code of check_lanes
ColCode(val_lane, val_sh, lanes_count) ==
  IF val_lane # ""
  THEN IF lanes_count = LanesOsm(val_lane, val_sh) THEN "WEBGreen" ELSE "WEBRed"
  ELSE "WEBBlueLight"

\* count_lanes_dir adds the length of the chain to count
CountLanesDir(chain, count) == count + ChainLen(chain)

\* the value vectors of check_lanes for the merged points: entry i + 1 holds the
\* value after the i-th merged point, found by counting the points of that key
ValNew(vals, pts_key, pts_merged) ==
  [i \in 1..(Len(pts_merged) + 1) |->
     vals[1 + Cardinality({k \in 1..(i - 1) : pts_merged[k] \in Range(pts_key)})]]

UsedColNever(cs, id) == FALSE

\* used_Id(cols, ll)
UsedCol(cs, id) == \E i \in 1..Len(cs) : cs[i][1] = id

\* set_color_code_dir from chain entry i on
RECURSIVE SetColorCodeDirFrom(_, _, _, _, _)
SetColorCodeDirFrom(cs, lls, chain, col_code, i) ==
  IF i \notin DOMAIN chain THEN cs
  ELSE LET ll == FindLl(lls, chain[i])
       IN  SetColorCodeDirFrom(IF ~UsedCol(cs, ll.id) THEN Append(cs, <<ll.id, col_code>>)
                               ELSE cs,
                               lls, chain, col_code, i + 1)

SetColorCodeDir(cs, lls, chain, col_code) == SetColorCodeDirFrom(cs, lls, chain, col_code, 1)

\* lanelet::geometry::follows(prev, next): both bounds of prev end in the points both
\* bounds of next start with
Follows(lss, prev, next) ==
  LET pl == LsPoints(lss, prev.left)
      pr == LsPoints(lss, prev.right)
      nl == LsPoints(lss, next.left)
      nr == LsPoints(lss, next.right)
  IN  /\ pl # <<>> /\ pr # <<>> /\ nl # <<>> /\ nr # <<>>
      /\ pl[Len(pl)] = nl[1]
      /\ pr[Len(pr)] = nr[1]

\* the entries of a chain in the order of their keys
ChainEntries(chain) ==
  [n \in 1..Cardinality(DOMAIN chain) |->
     chain[CHOOSE i \in DOMAIN chain : Cardinality({j \in DOMAIN chain : j <= i}) = n]]

\* find_wrong_lanelet_candidates: the lanelets of the attributes of seg whose key
\* holds "forward" or "backward", in the order of the attribute map (sorted by key:
\* ll_id_backward_* before ll_id_forward_*)
FindWrongLaneletCandidates(lls, seg) ==
  LET ids == ChainEntries(seg.backward) \o ChainEntries(seg.forward)
  IN  [i \in 1..Len(ids) |-> FindLl(lls, ids[i])]

\* the two flags find_wrong_lanelet computes for a candidate
HasPredecessor(lls, lss, ll) ==
  \E id \in DOMAIN lls : id # ll.id /\ Follows(lss, FindLl(lls, id), ll)

NoSuccessor(lls, lss, ll) == FALSE

HasSuccessor(lls, lss, ll) ==
  \E id \in DOMAIN lls : id # ll.id /\ Follows(lss, ll, FindLl(lls, id))

FindFirstCandidate(lls, lss, seg) ==
  LET cand == FindWrongLaneletCandidates(lls, seg)
  IN  IF cand = <<>> THEN [found |-> FALSE, id |-> 0]
      ELSE [found |-> TRUE, id |-> cand[1].id]

\* find_wrong_lanelet: the first candidate with neither predecessor nor successor
FindWrongLanelet(lls, lss, seg) ==
  LET cand == FindWrongLaneletCandidates(lls, seg)
      lone == {i \in 1..Len(cand) : \E ll \in {cand[i]} :
                                      /\ ~HasPredecessor(lls, lss, ll)
                                      /\ ~HasSuccessor(lls, lss, ll)}
  IN  IF lone = {} THEN [found |-> FALSE, id |-> 0]
      ELSE [found |-> TRUE, id |-> cand[CHOOSE i \in lone : \A j \in lone : i <= j].id]

----------------------------------------------------------------------------
(* create_updated_map *)

\* the lanelets transferred to the new map: all but the deleted ones
TransferAll(lls, del) == DOMAIN lls

TransferLanelets(lls, del) == {id \in DOMAIN lls : id \notin Range(del)}

----------------------------------------------------------------------------
(* The inputs: a lanelet map of one road and the matches on it.             *)
(*                                                                          *)
(*   x:        0        16        32                 64                     *)
(*   ls 26     11 ----------------12         (right bound of 44, inverted)  *)
(*   ls 22     4 ------- 5 ------- 6 ---------------- 10   (ls 25)          *)
(*   ls 21     1 ------- 2 ------- 3 ---------------- 9    (ls 24)          *)
(*   ls 23     7 ------------------8                                        *)
(*                                                                          *)
(* Lanelet 41 lies between ls 22 (left) and ls 21 (right), lanelet 42       *)
(* follows it between ls 25 and ls 24; lanelet 43 is the right neighbour of *)
(* 41 (ls 21, ls 23) and lanelet 44 its oncoming neighbour (ls 22 and ls 26 *)
(* inverted); 43 and 44 have neither predecessor nor successor.  The        *)
(* reference route has the segments 51-52, 52-53, 53-54.                    *)

BasePtX ==
  (1 :> 0) @@ (2 :> 16) @@ (3 :> 32) @@ (4 :> 0) @@ (5 :> 16) @@ (6 :> 32) @@
  (7 :> 0) @@ (8 :> 32) @@ (9 :> 64) @@ (10 :> 64) @@ (11 :> 0) @@ (12 :> 32) @@
  (51 :> 0) @@ (52 :> 16) @@ (53 :> 32) @@ (54 :> 64)

Ls(pts, straight) == [pts |-> pts, straight |-> straight, attr |-> "line_thin"]

BaseLinestrings(straight) ==
  (21 :> Ls(<<1, 2, 3>>, straight)) @@ (22 :> Ls(<<4, 5, 6>>, straight)) @@
  (23 :> Ls(<<7, 8>>, straight)) @@ (24 :> Ls(<<3, 9>>, straight)) @@
  (25 :> Ls(<<6, 10>>, straight)) @@ (26 :> Ls(<<11, 12>>, straight))

H(id) == [id |-> id, inv |-> FALSE]

BaseLanelets ==
  (41 :> [left |-> H(22), right |-> H(21), attr |-> ("subtype" :> "road")]) @@
  (42 :> [left |-> H(25), right |-> H(24), attr |-> ("subtype" :> "road")]) @@
  (43 :> [left |-> H(21), right |-> H(23), attr |-> ("subtype" :> "road")]) @@
  (44 :> [left |-> Invert(H(22)), right |-> Invert(H(26)), attr |-> ("subtype" :> "road")])

\* the reference route with the chains fw and bw on the segments along lanelet 41
RefRoute(fw, bw) ==
  <<[front |-> 51, back |-> 52, forward |-> fw, backward |-> bw],
    [front |-> 52, back |-> 53, forward |-> fw, backward |-> bw],
    [front |-> 53, back |-> 54, forward |-> <<42>>, backward |-> <<>>]>>

FullRefRoutes ==
  {RefRoute(fw, bw) : fw \in {<<41>>, <<41, 43>>, <<43, 41>>}, bw \in {<<>>, <<44>>}}

RefRoutes == {<<>>} \cup FullRefRoutes

\* the coordinates of the points of a target route: segment i runs from point i of
\* the layout to point i + 1
LayoutA == <<0, 12, 48, 52, 56, 64>>

LayoutB == <<0, 16, 32, 48, 56, 64>>

\* a target route that runs against the reference route
LayoutC == <<64, 48, 12, 8, 4, 0>>

Layouts == {LayoutA, LayoutB, LayoutC}

\* a target route with two points on the first reference segment
LayoutD == <<0, 8, 12, 48, 56, 64>>

\* the identity of point i of a target route
TargetPoint(i) == 60 + i

TargetPtX(layout) == [p \in {TargetPoint(i) : i \in 1..Len(layout)} |-> layout[p - 60]]

\* the tags a target segment may carry
MaxSpeedOf(h) == IF h = "motorway" THEN "130" ELSE "50"

HighwayTags ==
  {("highway" :> h) @@ ("maxspeed" :> MaxSpeedOf(h)) : h \in {"motorway", "primary"}}

Motorway == ("highway" :> "motorway") @@ ("maxspeed" :> "130")

TagSets == HighwayTags \cup {("lanes" :> "1") @@ Motorway}

\* a lanes value that is no integer
BadLaneTags == {Motorway, ("lanes" :> "two") @@ Motorway}

\* lanes and shoulder change independently of each other
ShoulderTags ==
  {("lanes" :> l) @@ Motorway : l \in {"1", "2"}} \cup
  {("lanes" :> l) @@ ("shoulder" :> "both") @@ Motorway : l \in {"1", "2"}}

\* for check_tag_change alone: keys absent, present and empty, present with a value
WideTagSets ==
  UNION {[D -> {"", "motorway", "primary"}] : D \in SUBSET {"highway", "lanes"}}

TargetRoute(tags) ==
  [i \in 1..Len(tags) |->
     [front |-> TargetPoint(i), back |-> TargetPoint(i + 1), tags |-> tags[i]]]

TargetRoutes == {TargetRoute(t) : t \in SeqsUpTo(TagSets, MaxTarget)}

HighwayRoutes == {TargetRoute(t) : t \in SeqsUpTo(HighwayTags, MaxTarget - 1)}

WideRoutes == {TargetRoute(t) : t \in SeqsUpTo(WideTagSets, MaxTarget)}

BadLaneRoutes == {TargetRoute(t) : t \in SeqsUpTo(BadLaneTags, MaxTarget - 1)}

ShoulderRoutes == {TargetRoute(t) : t \in SeqsUpTo(ShoulderTags, MaxTarget)}

\* the areas, regulatory elements and polygons of the map
BaseLayers == [areas |-> {71, 72}, regs |-> {73}, polys |-> {74}]

NoLoc ==
  [pts_merged |-> <<>>, pi |-> 0, splitted |-> <<>>, new_lss |-> <<>>, k |-> 0,
   si |-> 0, ind_change |-> <<>>, val_lanes_new |-> <<>>, val_shoulder_new |-> <<>>,
   val_lane |-> "", val_sh |-> "", col_code |-> "", lanes_count |-> 0, lanes_osm |-> 0,
   count0 |-> 0, deleted0 |-> 0]

NoLog ==
  [obs |-> <<>>, made |-> <<>>, splits |-> <<>>, writes |-> <<>>, oob |-> FALSE,
   skipped |-> {}, split_lls |-> {}]

WorldBut(pc0, lls, lss, ptx, ms) ==
  /\ pc = pc0
  /\ matches = ms
  /\ lanelets = lls
  /\ linestrings = lss
  /\ ptX = ptx
  /\ nextId = 100
  /\ cols = <<>>
  /\ deleted = <<>>
  /\ new_map = [lanelets |-> {}, areas |-> {}, regs |-> {}, polys |-> {}]
  /\ mi = 1
  /\ pts_change = <<>>
  /\ values = <<>>
  /\ log = NoLog

WorldInit(pc0, lss, ptx, ms) == WorldBut(pc0, BaseLanelets, lss, ptx, ms) /\ loc = NoLoc

\* one match on any reference route, or two matches on the same lanelets
MatchLists ==
  {<<[ref |-> r, target |-> t]>> : r \in RefRoutes, t \in TargetRoutes} \cup
  {<<[ref |-> r, target |-> t], [ref |-> r, target |-> u]>> :
     r \in {RefRoute(<<41, 43>>, bw) : bw \in {<<>>, <<44>>}},
     t \in HighwayRoutes, u \in HighwayRoutes}

\* one match whose target route carries a lanes value that is no integer, or lanes
\* and shoulder values that change at different points
\* two matches on the same lanelets whose target routes differ in the lanes tag
LaneCountRoutes ==
  {TargetRoute(<<t>>) : t \in {Motorway, ("lanes" :> "1") @@ Motorway,
                                ("lanes" :> "3") @@ Motorway}}

OtherMatchLists ==
  {<<[ref |-> RefRoute(<<41, 43>>, <<44>>), target |-> t]>> :
     t \in BadLaneRoutes \cup ShoulderRoutes} \cup
  {<<[ref |-> RefRoute(<<41, 43>>, <<44>>), target |-> t1],
     [ref |-> RefRoute(<<41, 43>>, <<44>>), target |-> t2]>> :
     t1 \in LaneCountRoutes, t2 \in LaneCountRoutes}

\* two matches whose reference routes name different lanelets of the same road:
\* the first names lanelet 41 alone, the first segment of the second names fw0
NeighbourRoute(fw0) ==
  <<[front |-> 51, back |-> 52, forward |-> fw0, backward |-> <<>>],
    [front |-> 52, back |-> 53, forward |-> <<41, 43>>, backward |-> <<>>],
    [front |-> 53, back |-> 54, forward |-> <<42>>, backward |-> <<>>]>>

Primary == ("highway" :> "primary") @@ ("maxspeed" :> "50")

NeighbourMatchLists ==
  {<<[ref |-> RefRoute(<<41>>, <<>>), target |-> TargetRoute(t1)],
     [ref |-> NeighbourRoute(fw0), target |-> TargetRoute(t2)]>> :
     t1 \in {<<Motorway, Motorway, Primary>>, <<Motorway, Primary>>},
     t2 \in {<<Motorway, ("lanes" :> "1") @@ Motorway>>, <<("lanes" :> "1") @@ Motorway>>},
     fw0 \in {<<43>>, <<41, 43>>}}

\* two matches on the same lanelets: by the lanes tag of the first lanelets are
\* removed, the target route of the second has a split point
RemovedThenSplitMatchLists ==
  {<<[ref |-> RefRoute(<<41, 43>>, bw), target |-> TargetRoute(<<("lanes" :> "1") @@ Motorway>>)],
     [ref |-> RefRoute(<<41, 43>>, bw), target |-> TargetRoute(t2)]>> :
     bw \in {<<>>, <<44>>},
     t2 \in {<<Motorway, ("lanes" :> "1") @@ Motorway>>,
              <<("lanes" :> "1") @@ Motorway, Motorway>>}}

\* one match whose target route carries no tag at all, or a highway value that
\* highway2subtype_location does not map
BareTags == {<<>>, ("highway" :> "track"), Motorway}

BareRoutes == {TargetRoute(t) : t \in SeqsUpTo(BareTags, MaxTarget - 1)}

BareMatchLists ==
  {<<[ref |-> RefRoute(<<41, 43>>, <<44>>), target |-> t]>> : t \in BareRoutes}

Init ==
  \/ \E straight \in BOOLEAN, layout \in Layouts, ms \in MatchLists :
       WorldInit("match", BaseLinestrings(straight), BasePtX @@ TargetPtX(layout), ms)
  \/ \E ms \in OtherMatchLists \cup BareMatchLists :
       WorldInit("match", BaseLinestrings(FALSE), BasePtX @@ TargetPtX(LayoutA), ms)
  \/ \E ms \in NeighbourMatchLists \cup RemovedThenSplitMatchLists :
       WorldInit("match", BaseLinestrings(FALSE), BasePtX @@ TargetPtX(LayoutD), ms)


----------------------------------------------------------------------------
(* conflate_lanelet_OSM, one call at a time *)

ref_keys == <<"", "speed_limit", "road_name", "one_way", "road_surface", "lane_markings">>

Match == matches[mi]

\* the for loop reaches a match whose target route is empty: nothing is done
SkipMatch ==
  /\ pc = "match" /\ mi <= Len(matches)
  /\ Match.target = <<>>
  /\ mi' = mi + 1
  /\ log' = [log EXCEPT !.skipped = @ \cup {mi}]
  /\ UNCHANGED <<pc, matches, lanelets, linestrings, ptX, nextId, cols, deleted,
                 new_map, pts_change, values, loc>>

\* split_on_tag_change up to the call of split_lanelet: check_tag_change and
\* merge_point_vec
SplitOnTagChange ==
  /\ pc = "match" /\ mi <= Len(matches)
  /\ Match.target # <<>>
  /\ LET c == CheckTagChange(Match.target, target_keys)
         m == MergePointVec(c.pts)
     IN  /\ pts_change' = c.pts
         /\ values' = c.values
         /\ loc' = [NoLoc EXCEPT !.pts_merged = m, !.pi = 1]
         /\ pc' = IF m # <<>> THEN "split" ELSE "type"
  /\ log' = [log EXCEPT !.obs = <<>>, !.made = <<>>, !.writes = <<>>]
  /\ UNCHANGED <<matches, lanelets, linestrings, ptX, nextId, cols, deleted, new_map, mi>>

AfterSplit == IF loc.pi + 1 > Len(loc.pts_merged) THEN "type" ELSE "split"

\* the body of the loop of split_lanelet for the point at px
SplitLaneletAt(w, ind, px) == SplitLlDir(SplitLlDir(w, ind, "forward", px), ind, "backward", px)

SplitLanelet1(w, px) == SplitLaneletAt(w, GetIndex(w.ref, w.ptX, px), px)

\* split_lanelet, one iteration of its loop over the points: both chains of the
\* nearest reference segment are split at the point
SplitLanelet ==
  /\ pc = "split"
  /\ Match.ref # <<>>
  /\ \E w \in {SplitLanelet1([lss |-> linestrings, ptX |-> ptX, nextId |-> nextId,
                              splitted |-> loc.splitted, new_lss |-> loc.new_lss,
                              lls |-> lanelets, ref |-> Match.ref, obs |-> log.obs,
                              made |-> log.made, splits |-> <<>>],
                             ptX[loc.pts_merged[loc.pi]])} :
       /\ linestrings' = w.lss
       /\ ptX' = w.ptX
       /\ nextId' = w.nextId
       /\ lanelets' = w.lls
       /\ matches' = [matches EXCEPT ![mi].ref = w.ref]
       /\ loc' = [loc EXCEPT !.splitted = w.splitted, !.new_lss = w.new_lss, !.pi = @ + 1]
       /\ log' = [log EXCEPT !.obs = w.obs, !.made = w.made,
                             !.splits = @ \o [j \in 1..Len(w.splits) |->
                                                [id |-> w.splits[j], mi |-> mi]],
                             !.split_lls = @ \cup {w.made[j].orig : j \in DOMAIN w.made}
                                             \cup {w.made[j].new : j \in DOMAIN w.made}]
  /\ pc' = AfterSplit
  /\ UNCHANGED <<cols, deleted, new_map, mi, pts_change, values>>

\* split_lanelet on an empty reference route: get_index returns 0 and
\* match.ref_pline()[0] reads past the end of the vector.  The read either ends the
\* program or yields a segment without chain attributes.
SplitLaneletOutOfRange ==
  /\ pc = "split"
  /\ Match.ref = <<>>
  /\ pc' \in {"crashed", AfterSplit}
  /\ loc' = [loc EXCEPT !.pi = @ + 1]
  /\ log' = [log EXCEPT !.oob = TRUE]
  /\ UNCHANGED <<matches, lanelets, linestrings, ptX, nextId, cols, deleted, new_map,
                 mi, pts_change, values>>

\* set_type_location
SetTypeLocationCall ==
  /\ pc = "type"
  /\ \E r \in {SetTypeLocation(lanelets, Match, ptX, pts_change[1], values[1])} :
       /\ lanelets' = r.loc.lls
       /\ log' = [log EXCEPT !.writes = @ \o r.sub.writes \o r.loc.writes]
  /\ values' = [values EXCEPT ![1] = Flipped(@, Match, ptX)]
  /\ loc' = [loc EXCEPT !.k = 2]
  /\ pc' = "att"
  /\ UNCHANGED <<matches, linestrings, ptX, nextId, cols, deleted, new_map, mi,
                 pts_change>>

\* transfer_att for the key at position loc.k
TransferAttCall ==
  /\ pc = "att"
  /\ \E r \in {TransferAtt(lanelets, Match, ptX, ref_keys[loc.k],
                            pts_change[loc.k], values[loc.k])} :
       /\ lanelets' = r.lls
       /\ log' = [log EXCEPT !.writes = @ \o r.writes]
  /\ values' = [values EXCEPT ![loc.k] = Flipped(@, Match, ptX)]
  /\ loc' = [loc EXCEPT !.k = @ + 1]
  /\ pc' = IF loc.k = Len(ref_keys) THEN "lanes" ELSE "att"
  /\ UNCHANGED <<matches, linestrings, ptX, nextId, cols, deleted, new_map, mi,
                 pts_change>>

\* check_lanes up to its loop over the reference segments
CheckLanesBegin ==
  /\ pc = "lanes"
  /\ LET m  == MergePointVec(<<pts_change[7], pts_change[8]>>)
         vl == Flipped(values[7], Match, ptX)
         vs == Flipped(values[8], Match, ptX)
     IN  /\ values' = [values EXCEPT ![7] = vl, ![8] = vs]
         /\ loc' = [loc EXCEPT !.ind_change = IndChange(Match, ptX, m),
                               !.val_lanes_new = ValNew(vl, pts_change[7], m),
                               !.val_shoulder_new = ValNew(vs, pts_change[8], m),
                               !.si = 1]
  /\ IF Match.ref = <<>>
     THEN pc' = "match" /\ mi' = mi + 1
     ELSE pc' = "seg" /\ mi' = mi
  /\ UNCHANGED <<matches, lanelets, linestrings, ptX, nextId, cols, deleted, new_map,
                 pts_change, log>>

Seg == Match.ref[loc.si]

\* the body of the loop of check_lanes up to the while loop: count and colorize
CheckLanesSegment ==
  /\ pc = "seg"
  /\ LET val_lane    == ActiveValue(loc.val_lanes_new, loc.ind_change, loc.si - 1)
         val_sh      == ActiveValue(loc.val_shoulder_new, loc.ind_change, loc.si - 1)
         lanes_count == CountLanesDir(Seg.backward, CountLanesDir(Seg.forward, 0))
         lanes_osm   == IF val_lane # "" THEN LanesOsm(val_lane, val_sh) ELSE 0
         col_code    == ColCode(val_lane, val_sh, lanes_count)
     IN  /\ val_lane # "" => IsInt(val_lane)
         /\ cols' = SetColorCodeDir(SetColorCodeDir(cols, lanelets, Seg.forward, col_code),
                                    lanelets, Seg.backward, col_code)
         /\ loc' = [loc EXCEPT !.val_lane = val_lane, !.val_sh = val_sh,
                               !.col_code = col_code, !.lanes_count = lanes_count,
                               !.lanes_osm = lanes_osm,
                               !.count0 = Cardinality(DOMAIN Seg.forward)
                                          + Cardinality(DOMAIN Seg.backward),
                               !.deleted0 = Len(deleted)]
  /\ pc' = "remove"
  /\ UNCHANGED <<matches, lanelets, linestrings, ptX, nextId, deleted, new_map, mi,
                 pts_change, values, log>>

\* the body of the loop of check_lanes for a lanes value std::stoi cannot read:
\* std::invalid_argument leaves check_lanes and conflate_lanelet_OSM, which catch
\* nothing
CheckLanesThrows ==
  /\ pc = "seg"
  /\ ActiveValue(loc.val_lanes_new, loc.ind_change, loc.si - 1) # ""
  /\ ~IsInt(ActiveValue(loc.val_lanes_new, loc.ind_change, loc.si - 1))
  /\ pc' = "thrown"
  /\ UNCHANGED <<matches, lanelets, linestrings, ptX, nextId, cols, deleted, new_map, mi,
                 pts_change, values, loc, log>>

RemovingUntagged == loc.lanes_count > loc.lanes_osm

RemovingStopsEarly == loc.val_lane # "" /\ loc.lanes_count > loc.lanes_osm + 1

Removing == loc.val_lane # "" /\ loc.lanes_count > loc.lanes_osm

AfterSegment ==
  /\ IF loc.si = Len(Match.ref)
     THEN pc' = "match" /\ mi' = mi + 1
     ELSE pc' = "seg" /\ mi' = mi
  /\ loc' = [loc EXCEPT !.si = @ + 1]

\* the lanelets of the map that are not in the deleted list
LiveLanelets == [id \in DOMAIN lanelets \ Range(deleted) |-> lanelets[id]]

RemoveAmongLive ==
  /\ pc = "remove" /\ Removing
  /\ \E f \in {FindWrongLanelet(LiveLanelets, linestrings, Seg)} :
       /\ f.found
       /\ deleted' = Append(deleted, f.id)
       /\ matches' = [matches EXCEPT ![mi].ref = RemoveTagRefPline(@, f.id)]
  /\ loc' = [loc EXCEPT !.lanes_count = @ - 1]
  /\ UNCHANGED <<pc, lanelets, linestrings, ptX, nextId, cols, new_map, mi,
                 pts_change, values, log>>

\* one iteration of the while loop: find_wrong_lanelet finds a lanelet
RemoveWrongLanelet ==
  /\ pc = "remove" /\ Removing
  /\ \E f \in {FindWrongLanelet(lanelets, linestrings, Seg)} :
       /\ f.found
       /\ deleted' = Append(deleted, f.id)
       /\ matches' = [matches EXCEPT ![mi].ref = RemoveTagRefPline(@, f.id)]
  /\ loc' = [loc EXCEPT !.lanes_count = @ - 1]
  /\ UNCHANGED <<pc, lanelets, linestrings, ptX, nextId, cols, new_map, mi,
                 pts_change, values, log>>

\* one iteration of the while loop: find_wrong_lanelet finds none, break
SkipSegment ==
  /\ pc = "remove" /\ Removing
  /\ ~FindWrongLanelet(lanelets, linestrings, Seg).found
  /\ AfterSegment
  /\ UNCHANGED <<matches, lanelets, linestrings, ptX, nextId, cols, deleted, new_map,
                 pts_change, values, log>>

\* the while loop is not entered again
NextSegment ==
  /\ pc = "remove" /\ ~Removing
  /\ AfterSegment
  /\ UNCHANGED <<matches, lanelets, linestrings, ptX, nextId, cols, deleted, new_map,
                 pts_change, values, log>>

\* the loop over the matches ends: return true
ConflateReturn ==
  /\ pc = "match" /\ mi > Len(matches)
  /\ pc' = "conflated"
  /\ UNCHANGED <<matches, lanelets, linestrings, ptX, nextId, cols, deleted, new_map,
                 mi, pts_change, values, loc, log>>

\* create_updated_map
CreateUpdatedMap ==
  /\ pc = "conflated"
  /\ new_map' = [lanelets |-> new_map.lanelets \cup TransferLanelets(lanelets, deleted),
                 areas |-> new_map.areas \cup BaseLayers.areas,
                 regs |-> new_map.regs \cup BaseLayers.regs,
                 polys |-> new_map.polys \cup BaseLayers.polys]
  /\ pc' = "done"
  /\ UNCHANGED <<matches, lanelets, linestrings, ptX, nextId, cols, deleted, mi,
                 pts_change, values, loc, log>>

Next ==
  \/ SkipMatch
  \/ SplitOnTagChange
  \/ SplitLanelet
  \/ SplitLaneletOutOfRange
  \/ SetTypeLocationCall
  \/ TransferAttCall
  \/ CheckLanesBegin
  \/ CheckLanesSegment
  \/ CheckLanesThrows
  \/ RemoveWrongLanelet
  \/ SkipSegment
  \/ NextSegment
  \/ ConflateReturn
  \/ CreateUpdatedMap

Spec == Init /\ [][Next]_vars

----------------------------------------------------------------------------
(* check_tag_change on its own, over target routes whose segments carry a key
   with a value, carry it with an empty value or do not carry it *)

InitTag ==
  \E t \in WideRoutes :
    WorldInit("tag", BaseLinestrings(FALSE), BasePtX @@ TargetPtX(LayoutA),
              <<[ref |-> <<>>, target |-> t]>>)

CheckTagChangeCall ==
  /\ pc = "tag"
  /\ LET c == CheckTagChange(Match.target, target_keys)
     IN  /\ pts_change' = c.pts
         /\ values' = c.values
  /\ pc' = "tagged"
  /\ UNCHANGED <<matches, lanelets, linestrings, ptX, nextId, cols, deleted, new_map,
                 mi, loc, log>>

NextTag == CheckTagChangeCall

SpecTag == InitTag /\ [][NextTag]_vars

----------------------------------------------------------------------------
(* split_linestring on its own: a curve of up to MaxCurve points, seen through a
   handle of either orientation, is split at any position along it, and then
   asked for again within the same pass *)

MaxCurve == 3

CurvePtX(n) == [i \in 1..n |-> 8 * i]

\* positions before the first vertex, on each vertex, inside each segment and
\* beyond the last vertex
Positions(n) == {4 * j : j \in 1..(2 * n + 1)}

InitSplit ==
  \E n \in 2..MaxCurve, straight \in BOOLEAN, hinv \in BOOLEAN, invert \in BOOLEAN :
    \E px \in Positions(n) :
      /\ WorldBut("split1", <<>>, 21 :> Ls([i \in 1..n |-> i], straight), CurvePtX(n), <<>>)
      /\ loc = [h |-> [id |-> 21, inv |-> hinv], px |-> px, invert |-> invert] @@ NoLoc

SplitState ==
  [lss |-> linestrings, ptX |-> ptX, nextId |-> nextId,
   splitted |-> loc.splitted, new_lss |-> loc.new_lss]

\* a call of split_linestring with the arguments c
SplitCall(c) ==
  \E r \in {SplitLinestring(SplitState, c.h, c.px, c.invert)} :
    /\ linestrings' = r.st.lss
    /\ ptX' = r.st.ptX
    /\ nextId' = r.st.nextId
    /\ loc' = [loc EXCEPT !.splitted = r.st.splitted, !.new_lss = r.st.new_lss]
    /\ log' = [log EXCEPT !.obs = Append(@, Observe(SplitState, c.h, c.invert, r))]

SplitFirstCall ==
  /\ pc = "split1"
  /\ SplitCall(loc)
  /\ pc' = "split2"
  /\ UNCHANGED <<matches, lanelets, cols, deleted, new_map, mi, pts_change, values>>

\* the curve is reached again: through a handle of either orientation, for any
\* position, in either direction
SplitSecondCall ==
  /\ pc = "split2"
  /\ \E hinv \in BOOLEAN, invert \in BOOLEAN, px \in Positions(MaxCurve) :
       SplitCall([h |-> [id |-> loc.h.id, inv |-> hinv], px |-> px, invert |-> invert])
  /\ pc' = "split_done"
  /\ UNCHANGED <<matches, lanelets, cols, deleted, new_map, mi, pts_change, values>>

NextSplit == SplitFirstCall \/ SplitSecondCall

SpecSplit == InitSplit /\ [][NextSplit]_vars

----------------------------------------------------------------------------
(* check_lanes on its own: one match whose target route is a single segment   *)
(* (no change point, nothing was split), a reference route of two segments.  *)
(* The first segment names up to MaxChain lanelets forward and up to         *)
(* MaxChain backward, the second one lanelet; each lanelet has its own two   *)
(* bounds, and the linked ones of the route have a successor lanelet in the  *)
(* map.                                                                      *)

ForwardIds == [i \in 1..MaxChain |-> 200 + i]

BackwardIds == [i \in 1..MaxChain |-> 200 + MaxChain + i]

LastId == 200 + 2 * MaxChain + 1

LaneIds == Range(ForwardIds) \cup Range(BackwardIds) \cup {LastId}

\* the bounds of lanelet id run from point 10 * id resp. 10 * id + 2 to the points
\* 10 * id + 1 resp. 10 * id + 3, where the bounds of its successor id + 100 start
LaneLinestrings(linked) ==
  [l \in {2 * id : id \in LaneIds} \cup {2 * id + 1 : id \in LaneIds}
        \cup {2 * (id + 100) : id \in linked} \cup {2 * (id + 100) + 1 : id \in linked} |->
     LET id == l \div 2
     IN  IF id \in LaneIds
         THEN IF l % 2 = 0 THEN Ls(<<10 * id, 10 * id + 1>>, FALSE)
              ELSE Ls(<<10 * id + 2, 10 * id + 3>>, FALSE)
         ELSE IF l % 2 = 0 THEN Ls(<<10 * (id - 100) + 1, 10 * (id - 100) + 4>>, FALSE)
              ELSE Ls(<<10 * (id - 100) + 3, 10 * (id - 100) + 5>>, FALSE)]

LaneLanelets(linked) ==
  [id \in LaneIds \cup {i + 100 : i \in linked} |->
     [left |-> H(2 * id), right |-> H(2 * id + 1), attr |-> ("subtype" :> "road")]]

LaneRoute(nf, nb) ==
  <<[front |-> 51, back |-> 52, forward |-> SubSeq(ForwardIds, 1, nf),
     backward |-> SubSeq(BackwardIds, 1, nb)],
    [front |-> 52, back |-> 53, forward |-> <<LastId>>, backward |-> <<>>]>>

LaneValues == {"", "0", "1", "2", "two"}

ShoulderValues == {"", "yes", "left", "right", "both", "no"}

\* the tags of the target segment; an empty value stands for an absent key
LaneTags(l, sh) ==
  (IF l # "" THEN ("lanes" :> l) ELSE <<>>) @@
  (IF sh # "" THEN ("shoulder" :> sh) ELSE <<>>) @@ Motorway

\* check_lanes is entered for a target segment with a lanes value of ls and a
\* shoulder value of shs
LanesWorld(ls, shs) ==
  \E nf \in 0..MaxChain, nb \in 0..MaxChain, l \in ls, sh \in shs :
    \E linked \in SUBSET (Range(SubSeq(ForwardIds, 1, nf)) \cup
                          Range(SubSeq(BackwardIds, 1, nb)) \cup {LastId}) :
      \E t \in {TargetRoute(<<LaneTags(l, sh)>>)} :
        /\ pc = "lanes"
        /\ matches = <<[ref |-> LaneRoute(nf, nb), target |-> t]>>
        /\ lanelets = LaneLanelets(linked)
        /\ linestrings = LaneLinestrings(linked)
        /\ ptX = BasePtX @@ TargetPtX(LayoutA)
        /\ nextId = 100
        /\ cols = <<>>
        /\ deleted = <<>>
        /\ new_map = [lanelets |-> {}, areas |-> {}, regs |-> {}, polys |-> {}]
        /\ mi = 1
        /\ pts_change = CheckTagChange(t, target_keys).pts
        /\ values = CheckTagChange(t, target_keys).values
        /\ loc = [NoLoc EXCEPT !.k = Len(ref_keys) + 1]
        /\ log = NoLog

InitLanes == LanesWorld(LaneValues, ShoulderValues)

NextLanes ==
  \/ CheckLanesBegin
  \/ CheckLanesSegment
  \/ CheckLanesThrows
  \/ RemoveWrongLanelet
  \/ SkipSegment
  \/ NextSegment

SpecLanes == InitLanes /\ [][NextLanes]_vars

InitLanesFair == LanesWorld({"0", "1", "two"}, {""})

\* the while loop runs on: an iteration or the exit that can be taken is taken
SpecLanesFair ==
  InitLanesFair /\ [][NextLanes]_vars /\ WF_vars(RemoveWrongLanelet \/ SkipSegment \/ NextSegment)

----------------------------------------------------------------------------
(* Map alignment (src/src/map_transformation/align.cpp).  The two linestrings *)
(* lie on the road axis and are given by the coordinates of their points; a  *)
(* transformation [a, t] takes x to a * x + t (a: the rotation block, 1 or   *)
(* -1 on the axis; t: the translation column).                               *)

RECURSIVE SumSeq(_)
SumSeq(s) == IF s = <<>> THEN 0 ELSE Head(s) + SumSeq(Tail(s))

\* ls2interp_mat2d: num points at equal distances along the linestring, from its
\* first point to its last
Ls2InterpMat2d(ls, num) ==
  [i \in 1..num |-> ls[1] + ((i - 1) * (ls[Len(ls)] - ls[1])) \div (num - 1)]

\* n * n times the covariance of the point sets s and t (n points each)
UmeyamaCov(s, t) ==
  Len(s) * SumSeq([i \in 1..Len(s) |-> s[i] * t[i]]) - SumSeq(s) * SumSeq(t)

\* Eigen::umeyama(src, target, false): the rotation turns the axis when the
\* covariance is negative, the translation takes the mean of s to the mean of t
Umeyama(s, t) ==
  LET a == IF UmeyamaCov(s, t) < 0 THEN -1 ELSE 1
  IN  [a |-> a, t |-> (SumSeq(t) - a * SumSeq(s)) \div Len(s)]

\* scale = trans_scaling(0, 0) / trans(0, 0) < 0.95, the scaling factor of
\* Eigen::umeyama(src, target) being |covariance| / variance of s
ScaleBelow(s, t) == 100 * Abs(UmeyamaCov(s, t)) < 95 * UmeyamaCov(s, s)

\* point_transformation_umeyama
PointTransformationUmeyama(src, target, num) ==
  [trans  |-> Umeyama(Ls2InterpMat2d(src, num), Ls2InterpMat2d(target, num)),
   warned |-> ScaleBelow(Ls2InterpMat2d(src, num), Ls2InterpMat2d(target, num)),
   ret    |-> TRUE]

\* what pcl::IterativeClosestPoint may come back with: hasConverged() and
\* getFinalTransformation()
IcpOutcomes == [converged : BOOLEAN, a : {1, -1}, t : {0, 4}]

\* point_transformation_icp, the library coming back with o
PointTransformationIcp(o) ==
  [trans |-> [a |-> o.a, t |-> o.t], pcl_error |-> ~o.converged, ret |-> TRUE]

GetTransformationIcpOnly(src, target, trans, type, num, o) ==
  IF type = "ICP"
  THEN [ret |-> TRUE, trans |-> PointTransformationIcp(o).trans, warned |-> FALSE,
        pcl_error |-> PointTransformationIcp(o).pcl_error, rclcpp_error |-> FALSE]
  ELSE [ret |-> FALSE, trans |-> trans, warned |-> FALSE, pcl_error |-> FALSE,
        rclcpp_error |-> TRUE]

\* get_transformation: the value returned, the matrix trans after the call and
\* the messages written
GetTransformation(src, target, trans, type, num, o) ==
  IF type = "ICP"
  THEN [ret |-> TRUE, trans |-> PointTransformationIcp(o).trans, warned |-> FALSE,
        pcl_error |-> PointTransformationIcp(o).pcl_error, rclcpp_error |-> FALSE]
  ELSE IF type = "Umeyama"
  THEN [ret |-> TRUE, trans |-> PointTransformationUmeyama(src, target, num).trans,
        warned |-> PointTransformationUmeyama(src, target, num).warned,
        pcl_error |-> FALSE, rclcpp_error |-> FALSE]
  ELSE [ret |-> FALSE, trans |-> trans, warned |-> FALSE, pcl_error |-> FALSE,
        rclcpp_error |-> TRUE]

\* the values of the parameter align_type a caller may pass
AlignTypes == {"ICP", "Umeyama", "icp", "umeyama", "NDT", ""}

\* the linestrings: poses and GPS trajectory of equal length, of different
\* length, shifted, and traced from the other end
AlignLines == {<<0, 8>>, <<0, 4, 8>>, <<0, 16>>, <<4, 8, 12>>, <<8, 0>>, <<0, 2, 6>>}

\* the matrix the caller passes in
AlignTrans == {[a |-> 1, t |-> 0], [a |-> -1, t |-> 8], [a |-> 1, t |-> 2]}

InitAlign ==
  \E type \in AlignTypes, src \in AlignLines, target \in AlignLines,
     trans \in AlignTrans, num \in {2, 3} :
    /\ WorldBut("align", <<>>, <<>>, <<>>, <<>>)
    /\ loc = [type |-> type, src |-> src, target |-> target, trans |-> trans,
              trans0 |-> trans, num |-> num, ret |-> FALSE, warned |-> FALSE,
              pcl_error |-> FALSE, rclcpp_error |-> FALSE]

\* a call of get_transformation
GetTransformationCall ==
  /\ pc = "align"
  /\ \E o \in IcpOutcomes :
       \E r \in {GetTransformation(loc.src, loc.target, loc.trans, loc.type, loc.num, o)} :
         loc' = [loc EXCEPT !.trans = r.trans, !.ret = r.ret, !.warned = r.warned,
                            !.pcl_error = r.pcl_error, !.rclcpp_error = r.rclcpp_error]
  /\ pc' = "aligned"
  /\ UNCHANGED <<matches, lanelets, linestrings, ptX, nextId, cols, deleted, new_map,
                 mi, pts_change, values, log>>

NextAlign == GetTransformationCall

SpecAlign == InitAlign /\ [][NextAlign]_vars

----------------------------------------------------------------------------
(* Properties of check_tag_change (SpecTag) *)

\* the value of the key on a target segment, an absent key read as ""
TagOf(seg, key) == IF key \in DOMAIN seg.tags THEN seg.tags[key] ELSE ""

\* the number of change points of key k that lie at or before target segment i
ChangesUpTo(k, i) ==
  Cardinality({j \in 1..Len(pts_change[k]) :
                 \E s \in 1..i : matches[1].target[s].front = pts_change[k][j]})

\* C1: for every target route, the empty one and those of one segment included, and
\* every key, check_tag_change returns one value more than it returns change
\* points, and the last value whose change point lies at or before a segment (the
\* first value when there is none) is the value the segment carries for the key,
\* an absent key read as the empty string.
C1_ValuesReproduceTags ==
  pc = "tagged" =>
    \A k \in 1..Len(target_keys) :
      /\ Len(values[k]) = Len(pts_change[k]) + 1
      /\ \A i \in 1..Len(matches[1].target) :
           values[k][1 + ChangesUpTo(k, i)] = TagOf(matches[1].target[i], target_keys[k])

\* a route on which highway changes twice, the key being absent on the last segment
C1_Witness ==
  /\ pc = "tagged"
  /\ Len(pts_change[1]) >= 2
  /\ values[1][Len(values[1])] = ""
  /\ "highway" \notin DOMAIN matches[1].target[Len(matches[1].target)].tags

----------------------------------------------------------------------------
(* Properties of split_linestring *)

\* C2: within the split pass of one match, a call of split_linestring on a curve
\* that an earlier call has split hands out the suffix curve the first call made
\* and changes the points of neither the prefix curve nor the suffix curve.
C2_SecondSplitReturnsSameSuffix ==
  \A j \in 1..Len(log.obs) :
    ~log.obs[j].fresh =>
      /\ \E i \in 1..(j - 1) : /\ log.obs[i].fresh
                               /\ log.obs[i].id = log.obs[j].id
                               /\ log.obs[i].new_id = log.obs[j].new_id
      /\ log.obs[j].after = log.obs[j].before
      /\ log.obs[j].suffix = log.obs[j].suffix_before

\* the shared bound is reached from the adjacent lanelet after another curve has
\* been split in between
C2_Witness ==
  \E i, j, k \in 1..Len(log.obs) :
    /\ i < j /\ j < k
    /\ log.obs[i].fresh /\ log.obs[j].fresh /\ ~log.obs[k].fresh
    /\ log.obs[i].id = log.obs[k].id
    /\ log.obs[j].id # log.obs[k].id

\* C3: after a call of split_linestring that splits a curve of at least 2 points,
\* wherever the projected split point falls (inside a segment, on an interior
\* vertex, on the first vertex, on the last vertex), the prefix curve and the
\* suffix curve both have at least 2 points.
C3_BothCurvesKeepTwoPoints ==
  \A j \in 1..Len(log.obs) :
    (log.obs[j].fresh /\ Len(log.obs[j].before) >= 2) =>
      /\ Len(log.obs[j].after) >= 2
      /\ Len(log.obs[j].suffix) >= 2

\* the points of the prefix curve followed by those of the suffix curve, the split
\* point that ends the one and starts the other taken once
Joined(o) == SubSeq(o.after, 1, Len(o.after) - 1) \o o.suffix

\* the points s without the point p
Without(s, p) == SelectSeq(s, LAMBDA q : q # p)

\* the points s lie in order along the road axis
InOrder(s) ==
  \/ \A i \in 1..(Len(s) - 1) : ptX[s[i]] <= ptX[s[i + 1]]
  \/ \A i \in 1..(Len(s) - 1) : ptX[s[i]] >= ptX[s[i + 1]]

\* C4: after a call of split_linestring that splits a curve, the points of the
\* prefix followed by the points of the suffix, the split point counted once, are
\* the points of the original curve in order, with the split point inserted at its
\* place when it is a new point; a split that snaps to an existing vertex leaves
\* that vertex exactly once in the prefix.
C4_PrefixThenSuffixIsOriginal ==
  \A j \in 1..Len(log.obs) :
    log.obs[j].fresh =>
      /\ log.obs[j].after[Len(log.obs[j].after)] = log.obs[j].new_pt
      /\ log.obs[j].suffix[1] = log.obs[j].new_pt
      /\ Cardinality({i \in 1..Len(log.obs[j].after) :
                        log.obs[j].after[i] = log.obs[j].new_pt}) = 1
      /\ IF log.obs[j].new_pt \in Range(log.obs[j].before)
         THEN Joined(log.obs[j]) = log.obs[j].before
         ELSE /\ Without(Joined(log.obs[j]), log.obs[j].new_pt) = log.obs[j].before
              /\ InOrder(Joined(log.obs[j]))

----------------------------------------------------------------------------
(* Properties of the chains and of check_lanes *)

\* C6: on every segment of every reference route the keys of the forward chain and
\* the keys of the backward chain are 1..N without a gap, whatever splits and
\* removals have happened.
C6_ChainsContiguous ==
  \A m \in 1..Len(matches) :
    \A s \in 1..Len(matches[m].ref) :
      /\ DOMAIN matches[m].ref[s].forward =
           1..Cardinality(DOMAIN matches[m].ref[s].forward)
      /\ DOMAIN matches[m].ref[s].backward =
           1..Cardinality(DOMAIN matches[m].ref[s].backward)

\* a lanelet was split on one segment and, on another segment, a lanelet was
\* removed from a chain in which another lanelet stays behind it
C6_Witness ==
  /\ log.made # <<>>
  /\ deleted # <<>>
  /\ \E s \in 1..Len(matches[1].ref) :
       /\ matches[1].ref[s].forward = <<41>>
       /\ 43 \in Range(deleted)

\* C7: on a reference segment check_lanes removes at most
\* max(0, lanes_count - lanes_osm) lanelets, lanes_count being the number of
\* entries of the forward and the backward chain before the removal, and none when
\* lanes_count <= lanes_osm or when the segment has no lanes value.
C7_RemovesNoMoreThanNeeded ==
  pc = "remove" =>
    /\ Len(deleted) - loc.deleted0 <= Max(0, loc.count0 - loc.lanes_osm)
    /\ (loc.val_lane = "" \/ loc.count0 <= loc.lanes_osm) => Len(deleted) = loc.deleted0

\* a segment of three lanelets under lanes = 1 has lost two of them
C7_Witness ==
  /\ pc = "remove"
  /\ loc.val_lane # ""
  /\ Len(deleted) > loc.deleted0
  /\ Len(deleted) - loc.deleted0 = loc.count0 - loc.lanes_osm

\* lanelet a is followed by lanelet b: both bounds of a end where those of b start
FollowedBy(a, b) ==
  /\ LsPoints(linestrings, lanelets[a].left)[Len(LsPoints(linestrings, lanelets[a].left))]
       = LsPoints(linestrings, lanelets[b].left)[1]
  /\ LsPoints(linestrings, lanelets[a].right)[Len(LsPoints(linestrings, lanelets[a].right))]
       = LsPoints(linestrings, lanelets[b].right)[1]

\* lanelet c has neither predecessor nor successor among the other lanelets
Lone(c) == \A o \in DOMAIN lanelets \ {c} : ~FollowedBy(o, c) /\ ~FollowedBy(c, o)

\* the lanelets of the chains of the segment under work, in the order of the keys
Candidates == Seg.backward \o Seg.forward

\* C8: a lanelet that find_wrong_lanelet adds to the deleted list has, when it is
\* added, neither predecessor nor successor among the other lanelets of the map,
\* and no candidate of the segment before it is such a lanelet.
C8_RemovedIsFirstLone ==
  [][Len(deleted') = Len(deleted) + 1 =>
       \E n \in 1..Len(Candidates) :
         /\ Candidates[n] = deleted'[Len(deleted')]
         /\ Lone(Candidates[n])
         /\ \A k \in 1..(n - 1) : ~Lone(Candidates[k])]_vars

\* a lanelet has been removed from a segment while a lanelet with a successor,
\* which stood before it in the chain, stays
C8_Witness ==
  /\ pc = "remove"
  /\ Len(deleted) > loc.deleted0
  /\ Seg.forward # <<>>
  /\ ~Lone(Seg.forward[1])
  /\ \E c \in Range(deleted) : Lone(c)

----------------------------------------------------------------------------
(* Properties of create_updated_map and of the loop over the matches *)

EmptyRoute(m) == matches[m].ref = <<>> \/ matches[m].target = <<>>

\* C10 as stated: a match one of whose routes is empty is skipped: no segment of a
\* route is indexed, the map, the match, the color list and the deleted list stay
\* as they are, and the loop goes on with the next match.
C10_EmptyRouteIsSkipped ==
  \A m \in 1..Len(matches) :
    (EmptyRoute(m) /\ m <= mi) =>
      /\ ~log.oob
      /\ pc # "crashed"
      /\ Len(matches) = 1 => /\ lanelets = BaseLanelets
                             /\ cols = <<>>
                             /\ deleted = <<>>

\* C11 as stated: conflate_lanelet_OSM completes and returns its success indicator
\* for every input; no exception escapes it, also when the lanes tag of a target
\* segment is a non-empty string that is no integer.
C11_NoExceptionEscapes == pc # "thrown"

\* the value of the stretch segment ind (0-based) lies in: position i of vals belongs
\* to the i-th stretch between consecutive change-point indices
StretchValue(vals, ind_change, ind) ==
  vals[1 + Cardinality({j \in DOMAIN ind_change : ind_change[j] <= ind})]

\* C12 as stated: for a match whose routes run in opposite directions the value
\* transfer_tag writes for a reference segment is the one of the stretch the segment
\* lies in, the reversed value list being aligned with the stretches between
\* consecutive change-point indices, for any number of change points (here for
\* speed_limit, once transfer_att has returned).
C12_OppositeValuesAligned ==
  (pc = "lanes" /\ ~SameDirection(Match, ptX)) =>
    \A i \in DOMAIN log.writes :
      log.writes[i].key = "speed_limit" =>
        log.writes[i].val = StretchValue(values[2], IndChange(Match, ptX, pts_change[2]),
                                         log.writes[i].seg - 1)

\* the value of an attribute of a lanelet, "(none)" when it has none
AttributeOf(id, key) ==
  IF id \in DOMAIN lanelets /\ key \in DOMAIN lanelets[id].attr
  THEN lanelets[id].attr[key] ELSE "(none)"

CarriesMapped(id, val_osm) ==
  /\ AttributeOf(id, "subtype") = Highway2SubtypeLocation(val_osm).subtype
  /\ AttributeOf(id, "location") = Highway2SubtypeLocation(val_osm).location

\* C13 as stated: when the highway value of the target route changes at one point P,
\* after the split and set_type_location the lane element before the split (the
\* original) carries the subtype and location mapped from the value before P and
\* the one after the split (the new one) those mapped from the value after P,
\* whichever segment index P maps to (forward lane elements of a match whose routes
\* run the same way and whose other tags change at P or nowhere).
C13_SplitSidesCarryMapped ==
  (pc = "att" /\ loc.k = 2 /\ Len(matches) = 1 /\ SameDirection(Match, ptX)
     /\ Len(pts_change[1]) = 1
     /\ \A k \in DOMAIN pts_change : Range(pts_change[k]) \subseteq Range(pts_change[1])) =>
    \A i \in DOMAIN log.made :
      log.made[i].dir = "forward" =>
        /\ CarriesMapped(log.made[i].orig, values[1][1])
        /\ CarriesMapped(log.made[i].new, values[1][2])

----------------------------------------------------------------------------
(* Properties of check_lanes on its own (SpecLanes) *)

\* the number a lanes tag stands for and the lanes a shoulder tag adds
LaneNumber(str) == CASE str = "0" -> 0 [] str = "1" -> 1 [] str = "2" -> 2 [] OTHER -> 3

ShoulderLanes(str) ==
  CASE str \in {"yes", "left", "right"} -> 1 [] str = "both" -> 2 [] OTHER -> 0

\* the lanelets the segment in work names
SegIds == Range(Seg.forward) \cup Range(Seg.backward)

\* C14: in check_lanes lanes_osm is the integer of the lanes tag plus 1 for shoulder
\* yes, left or right, plus 2 for both, plus 0 otherwise; the lane elements of the
\* segment are classified WEBBlueLight when the lanes tag is empty, WEBGreen when
\* the chain length equals lanes_osm and WEBRed otherwise; on a match nothing is
\* removed.
C14_LanesOsmAndClassification ==
  pc = "remove" =>
    LET lanes == TagOf(Match.target[1], "lanes")
        sh    == TagOf(Match.target[1], "shoulder")
        osm   == LaneNumber(lanes) + ShoulderLanes(sh)
        class == IF lanes = "" THEN "WEBBlueLight"
                 ELSE IF loc.count0 = osm THEN "WEBGreen" ELSE "WEBRed"
    IN  /\ lanes # "" => loc.lanes_osm = osm
        /\ loc.col_code = class
        /\ \A id \in SegIds : <<id, class>> \in Range(cols)
        /\ class # "WEBRed" => ~Removing /\ Len(deleted) = loc.deleted0

\* lanes = 2, shoulder = both on a segment of chain length 4: lanes_osm 4, match, no
\* removal
C14_Witness ==
  /\ pc = "remove" /\ loc.si = 1
  /\ TagOf(Match.target[1], "lanes") = "2"
  /\ TagOf(Match.target[1], "shoulder") = "both"
  /\ loc.count0 = 4 /\ loc.lanes_osm = 4
  /\ loc.col_code = "WEBGreen"
  /\ ~Removing /\ deleted = <<>>

\* the while loop of check_lanes has ended for the segment in work
LoopEnded ==
  pc = "remove" /\ (~Removing \/ ~FindWrongLanelet(lanelets, linestrings, Seg).found)

\* the lanelets check_lanes has removed from the segment in work
Removed == {deleted[i] : i \in (loc.deleted0 + 1)..Len(deleted)}

\* C15: when the chain length of a segment exceeds lanes_osm and its chain holds at
\* least (chain length - lanes_osm) lanelets with neither predecessor nor
\* successor, check_lanes leaves exactly that many isolated lanelets of the segment
\* in the deleted list and the chain length equal to lanes_osm, so that a re-check
\* classifies the segment as a match.
C15_IsolatedRemovedToMatch ==
  (/\ LoopEnded
   /\ loc.val_lane # ""
   /\ loc.count0 > loc.lanes_osm
   /\ Cardinality({id \in SegIds \cup Removed : Lone(id)}) >= loc.count0 - loc.lanes_osm) =>
    /\ Len(deleted) - loc.deleted0 = loc.count0 - loc.lanes_osm
    /\ Cardinality(Removed) = loc.count0 - loc.lanes_osm
    /\ \A id \in Removed : Lone(id) /\ id \notin SegIds
    /\ Cardinality(SegIds) = loc.lanes_osm
    /\ CountLanesDir(Seg.backward, CountLanesDir(Seg.forward, 0)) = loc.lanes_osm
    /\ ColCode(loc.val_lane, loc.val_sh,
               CountLanesDir(Seg.backward, CountLanesDir(Seg.forward, 0))) = "WEBGreen"

\* lanes = 1 on a segment of two lanelets, one with a successor and one isolated:
\* the isolated one is removed
C15_Witness ==
  /\ LoopEnded /\ loc.si = 1
  /\ loc.val_lane = "1" /\ loc.val_sh = ""
  /\ loc.count0 = 2
  /\ Cardinality(Removed) = 1
  /\ \E id \in SegIds : ~Lone(id)

----------------------------------------------------------------------------
(* Properties of the propagation *)

propagated_keys ==
  {"subtype", "location", "speed_limit", "road_name", "one_way", "road_surface",
   "lane_markings"}

\* the reference segments of the match in work that name lanelet id
SegmentsOf(id) ==
  {s \in DOMAIN Match.ref : id \in Range(Match.ref[s].forward) \cup Range(Match.ref[s].backward)}

\* the position of a write within its reference segment: the forward chain comes
\* before the backward chain
ChainPosition(w) ==
  LET seg == Match.ref[w.seg]
  IN  IF w.id \in Range(seg.forward) THEN Find(seg.forward, w.id)
      ELSE Len(seg.forward) + Find(seg.backward, w.id)

\* C16: within one match, for each propagated key the attribute of a lanelet id is
\* written at most once, by the first reference segment (in route order, forward
\* chain before backward chain) that names it, also when several segments name it.
C16_WrittenOncePerKey ==
  pc \in {"att", "lanes"} =>
    /\ \A i, j \in DOMAIN log.writes :
         (log.writes[i].id = log.writes[j].id /\ log.writes[i].key = log.writes[j].key)
           => i = j
    /\ \A i \in DOMAIN log.writes :
         /\ log.writes[i].key \in propagated_keys
         /\ log.writes[i].seg \in SegmentsOf(log.writes[i].id)
         /\ \A s \in SegmentsOf(log.writes[i].id) : log.writes[i].seg <= s
    /\ \A i, j \in DOMAIN log.writes :
         (i < j /\ log.writes[i].key = log.writes[j].key) =>
           \/ log.writes[i].seg < log.writes[j].seg
           \/ /\ log.writes[i].seg = log.writes[j].seg
              /\ ChainPosition(log.writes[i]) < ChainPosition(log.writes[j])

\* all seven keys have been written to a lanelet that two segments name
C16_Witness ==
  /\ pc = "lanes"
  /\ \E id \in DOMAIN lanelets :
       /\ Cardinality(SegmentsOf(id)) >= 2
       /\ {log.writes[i].key : i \in {k \in DOMAIN log.writes : log.writes[k].id = id}}
            = propagated_keys
       /\ Cardinality({k \in DOMAIN log.writes : log.writes[k].id = id}) = 7

----------------------------------------------------------------------------
(* Properties of check_lanes within conflate_lanelet_OSM *)

\* C17 as stated: for every reference segment check_lanes uses the lanes value that
\* is active there by the change points of the lanes key alone, and the shoulder
\* value active by the change points of the shoulder key alone, for every
\* interleaving of the change points of the two keys (routes in the same direction).
C17_EachKeyByItsOwnChangePoints ==
  (pc = "remove" /\ SameDirection(Match, ptX)) =>
    /\ loc.val_lane = StretchValue(values[7], IndChange(Match, ptX, pts_change[7]),
                                   loc.si - 1)
    /\ loc.val_sh = StretchValue(values[8], IndChange(Match, ptX, pts_change[8]),
                                 loc.si - 1)

----------------------------------------------------------------------------
(* Properties of split_lanelet *)

\* the reference segment (1-based) the split point in work maps to
SplitSeg == GetIndex(Match.ref, ptX, ptX[loc.pts_merged[loc.pi]]) + 1

\* the chain entries of a segment in the order split_lanelet walks them
SplitEntries(seg) ==
  [k \in 1..(Len(seg.forward) + Len(seg.backward)) |->
     IF k <= Len(seg.forward) THEN [dir |-> "forward", i |-> k]
     ELSE [dir |-> "backward", i |-> k - Len(seg.forward)]]

\* C18: a split at a point mapped to reference segment i adds, for each chain index
\* of that segment in both directions, exactly one new lanelet with a fresh
\* identity, the two curves split_linestring hands out as suffixes and a copy of
\* the attributes of the original; the original keeps its identity, attributes and
\* bounds; the chain entry of segment i names the new lanelet; the entries of all
\* other segments and the chain length of every segment stay as they are.
C18_SplitFrame ==
  [][(pc = "split" /\ Match.ref # <<>>) =>
       LET e   == SplitEntries(Match.ref[SplitSeg])
           new == DOMAIN lanelets' \ DOMAIN lanelets
           old(k) == Match.ref[SplitSeg][e[k].dir][e[k].i]
           now(k) == matches'[mi].ref[SplitSeg][e[k].dir][e[k].i]
       IN  /\ Cardinality(new) = Len(e)
           /\ new = {now(k) : k \in DOMAIN e}
           /\ \A n \in new : n >= nextId /\ n \notin DOMAIN linestrings' \cup DOMAIN ptX'
           /\ \A k \in DOMAIN e :
                /\ lanelets'[now(k)].attr = lanelets[old(k)].attr
                /\ lanelets'[now(k)].left.id = log'.obs[Len(log.obs) + 2 * k - 1].new_id
                /\ log'.obs[Len(log.obs) + 2 * k - 1].id = lanelets[old(k)].left.id
                /\ lanelets'[now(k)].right.id = log'.obs[Len(log.obs) + 2 * k].new_id
                /\ log'.obs[Len(log.obs) + 2 * k].id = lanelets[old(k)].right.id
           /\ \A id \in DOMAIN lanelets : lanelets'[id] = lanelets[id]
           /\ \A s \in DOMAIN Match.ref :
                /\ s # SplitSeg => matches'[mi].ref[s] = Match.ref[s]
                /\ DOMAIN matches'[mi].ref[s].forward = DOMAIN Match.ref[s].forward
                /\ DOMAIN matches'[mi].ref[s].backward = DOMAIN Match.ref[s].backward
           /\ DOMAIN matches'[mi].ref = DOMAIN Match.ref
           /\ \A m \in DOMAIN matches : m # mi => matches'[m] = matches[m]
    ]_vars

\* a segment with two forward lanelets and one backward lanelet has been split, and
\* another segment still names an original
C18_Witness ==
  /\ pc \in {"split", "type"}
  /\ \E a, b, c \in Range(log.made) :
       /\ a.dir = "forward" /\ b.dir = "forward" /\ a.i # b.i /\ c.dir = "backward"
       /\ a.seg = b.seg /\ a.seg = c.seg
       /\ {a.new, b.new, c.new} \subseteq DOMAIN lanelets
       /\ Match.ref[a.seg + 1].forward[a.i] = a.new
       /\ \E s \in DOMAIN Match.ref : s # a.seg + 1 /\ a.orig \in Range(Match.ref[s].forward)

----------------------------------------------------------------------------
(* Properties of the color list *)

\* the lanelet ids the color list holds
Colored(cs) == {cs[i][1] : i \in DOMAIN cs}

\* C19: the color list holds at most one entry per lanelet id; an entry is made
\* when check_lanes colors the first segment naming the lanelet and carries the
\* color of that segment; an entry is never changed or removed later, also when
\* the lanelet is put on the deleted list.
C19_FirstColorStays ==
  [][/\ \A i, j \in DOMAIN cols' : cols'[i][1] = cols'[j][1] => i = j
     /\ Len(cols') >= Len(cols) /\ SubSeq(cols', 1, Len(cols)) = cols
     /\ IF pc = "seg" /\ pc' = "remove"
        THEN /\ SegIds \subseteq Colored(cols')
             /\ Colored(cols') \ Colored(cols) = SegIds \ Colored(cols)
             /\ \A i \in (Len(cols) + 1)..Len(cols') : cols'[i][2] = loc'.col_code
        ELSE cols' = cols
    ]_vars

\* lanelet 43 was colored red and deleted by the first match; the second match, by
\* whose lanes tag its segment is a match, names it again
C19_Witness ==
  /\ pc = "done" /\ Len(matches) = 2
  /\ 43 \in Range(deleted)
  /\ \E i \in DOMAIN cols : cols[i] = <<43, "WEBRed">>
  /\ TagOf(matches[2].target[1], "lanes") = "3"
  /\ 43 \in Range(matches[2].ref[1].forward)

----------------------------------------------------------------------------
(* Termination of the removal loop of check_lanes (SpecLanesFair) *)

\* C20: when a segment has more lanelets than lanes_osm and none of them is without
\* predecessor and successor, the removal loop stops for the segment without
\* adding to the deleted list and check_lanes goes on with the next segment; for
\* every segment the loop ends, after at most lanes_count - lanes_osm removals.
C20_LoopStopsAndTerminates ==
  /\ [][(pc = "remove" /\ Removing /\ \A id \in SegIds : ~Lone(id)) =>
          /\ deleted' = deleted
          /\ loc'.si = loc.si + 1
          /\ IF loc.si < Len(Match.ref) THEN pc' = "seg" /\ mi' = mi
             ELSE pc' = "match" /\ mi' = mi + 1
       ]_vars
  /\ [](pc = "remove" =>
          Len(deleted) - loc.deleted0 <= Max(0, loc.count0 - loc.lanes_osm))
  /\ (pc = "remove") ~> (pc # "remove")

\* the loop has stopped on the first segment, which still has more lanelets than
\* lanes_osm, all of them with a successor, and the second segment is in work
C20_Witness ==
  /\ pc = "remove" /\ loc.si = 2
  /\ TagOf(Match.target[1], "lanes") = "1"
  /\ Len(Match.ref[1].forward) + Len(Match.ref[1].backward) > 1
  /\ \A id \in Range(Match.ref[1].forward) \cup Range(Match.ref[1].backward) : ~Lone(id)
  /\ Range(deleted) \cap (Range(ForwardIds) \cup Range(BackwardIds)) # {}

----------------------------------------------------------------------------
(* Properties of the deleted list over the whole pass *)

\* C21 as stated: once find_wrong_lanelet has removed a lanelet, no later step of
\* the pass sees it through a chain: the segment check_lanes has counted names no
\* lanelet of the deleted list (so none is counted or offered as a candidate
\* again), and the deleted list holds every lanelet at most once, for every
\* segment of the same match and for every later match.
C21_RemovedNeverSeenAgain ==
  /\ \A i, j \in DOMAIN deleted : deleted[i] = deleted[j] => i = j
  /\ pc = "remove" => SegIds \cap Range(deleted) = {}

----------------------------------------------------------------------------
(* Properties of get_transformation (SpecAlign) *)

\* C22: get_transformation returns failure exactly when the selected algorithm is
\* neither "ICP" nor "Umeyama", and then leaves the output transform as it was;
\* for the two supported names it returns success, also when the scale check
\* writes its warning or ICP has not converged.
C22_FailsOnlyOnUnsupported ==
  pc = "aligned" =>
    /\ ~loc.ret <=> loc.type \notin {"ICP", "Umeyama"}
    /\ ~loc.ret => loc.trans = loc.trans0 /\ ~loc.warned /\ ~loc.pcl_error
    /\ (loc.warned \/ loc.pcl_error) => loc.ret

\* Umeyama on a trajectory half as long as the poses: the warning is written, the
\* transform is replaced and success is returned
C22_Witness ==
  /\ pc = "aligned"
  /\ loc.type = "Umeyama"
  /\ loc.warned
  /\ loc.ret
  /\ loc.trans # loc.trans0

----------------------------------------------------------------------------
(* Properties of the map after the split pass *)

\* the identities of the two bounds of a lanelet
BoundIds(id) == <<lanelets[id].left.id, lanelets[id].right.id>>

\* C23 as stated: after the split pass of a match, whatever the number of split
\* points, no two distinct lanelets of the map have the same pair of left and right
\* curve identities; in particular a second split point mapped to another reference
\* segment that still names a lanelet already split makes no second lanelet on the
\* memoized suffix curves.
C23_NoTwoLaneletsOnSameCurves ==
  pc = "type" =>
    \A a, b \in DOMAIN lanelets : a # b => BoundIds(a) # BoundIds(b)

----------------------------------------------------------------------------
(* Properties of split lanelets under check_lanes *)

\* C24 as stated: a lanelet that was split in this pass, and the lanelet made from
\* it, are never put on the deleted list in the same pass: after the split one
\* follows the other (forward: the original is followed by the new one; backward:
\* the new one by the original), so each has a predecessor or a successor.
C24_SplitLaneletsStay ==
  /\ Range(deleted) \cap log.split_lls = {}
  /\ \A i \in DOMAIN log.made :
       \/ FollowedBy(log.made[i].orig, log.made[i].new)
       \/ FollowedBy(log.made[i].new, log.made[i].orig)

----------------------------------------------------------------------------
(* Properties of the attributes after a match *)

\* the match conflate_lanelet_OSM has just gone through
Processed(m) ==
  /\ pc \in {"match", "conflated", "done"}
  /\ m = mi - 1
  /\ m \in DOMAIN matches
  /\ matches[m].target # <<>>

\* the lanelets the chains of match m name
ChainIds(m) ==
  UNION {Range(matches[m].ref[s].forward) \cup Range(matches[m].ref[s].backward) :
           s \in DOMAIN matches[m].ref}

\* no segment of the target route of match m carries the key
NotCarried(m, key) == \A i \in DOMAIN matches[m].target : ~HasTag(matches[m].target[i], key)

\* no segment of the target route of match m carries a highway value of the mapping
NotMapped(m) ==
  \A i \in DOMAIN matches[m].target :
    Highway2SubtypeLocation(TagOf(matches[m].target[i], "highway")).subtype = ""

\* C25: after conflate_lanelet_OSM has gone through a match with a non-empty target
\* route, every lanelet a chain of a reference segment of the match names has
\* subtype, location, speed_limit, road_name, one_way, road_surface and
\* lane_markings set; when the target route does not carry the source tag (or
\* carries a highway value outside the mapping) the attribute is the empty string,
\* whatever value the lanelet had before.
C25_AllSevenSet ==
  \A m \in DOMAIN matches :
    Processed(m) =>
      \A id \in ChainIds(m) :
        /\ propagated_keys \subseteq DOMAIN lanelets[id].attr
        /\ \A k \in 2..Len(ref_keys) :
             NotCarried(m, target_keys[k]) => lanelets[id].attr[ref_keys[k]] = ""
        /\ NotMapped(m) => /\ lanelets[id].attr["subtype"] = ""
                           /\ lanelets[id].attr["location"] = ""

\* a target route of two segments, the second with a highway value outside the
\* mapping: the lanelets were split and lanelet 41, of subtype road before, has an
\* empty subtype
C25_Witness ==
  /\ Processed(1)
  /\ Len(matches[1].target) = 2
  /\ NotMapped(1)
  /\ TagOf(matches[1].target[2], "highway") = "track"
  /\ log.made # <<>>
  /\ 41 \in ChainIds(1)
  /\ BaseLanelets[41].attr["subtype"] = "road"
  /\ lanelets[41].attr["subtype"] = ""

----------------------------------------------------------------------------
(* Properties of the predecessor and successor test over the whole pass *)

\* lanelets a and b are neighbours along the road: one follows the other
Adjacent(a, b) == FollowedBy(a, b) \/ FollowedBy(b, a)

\* C26: the predecessor and successor test of find_wrong_lanelet ranges over every
\* lanelet of the map, those of the deleted list included (nothing is ever taken
\* out of the map being conflated): a lanelet that has a predecessor or successor
\* in the deleted list is not put on the deleted list, also when it has no other
\* predecessor or successor.
C26_DeletedStillCount ==
  [][/\ DOMAIN lanelets \subseteq DOMAIN lanelets'
     /\ Range(deleted) \subseteq DOMAIN lanelets
     /\ Len(deleted') = Len(deleted) + 1 =>
          \A o \in Range(deleted) \ {deleted'[Len(deleted')]} :
            ~Adjacent(o, deleted'[Len(deleted')])
    ]_vars

\* the loop stops on a segment with more lanelets than lanes_osm: one of them has
\* a lanelet of the deleted list as its only predecessor or successor
C26_Witness ==
  /\ pc = "remove" /\ Removing
  /\ ~FindWrongLanelet(lanelets, linestrings, Seg).found
  /\ \E x \in SegIds \ Range(deleted) :
       /\ \E o \in Range(deleted) : Adjacent(o, x)
       /\ \A o \in DOMAIN lanelets \ (Range(deleted) \cup {x}) : ~Adjacent(o, x)

====
